---------------------------- MODULE Spec2Model ----------------------------
(***************************************************************************)
(* Model of src/eng.py: the TTSPlayer audio lifecycle (generate, play,     *)
(* pause, resume, stop, replay, cleanup), the pygame mixer it drives, the  *)
(* temporary files it creates, and the EnglishLearningApp threads that     *)
(* call it (Tk main loop handlers and _generate_and_play_thread workers).  *)
(*                                                                         *)
(* Files are numbers 1..NumFiles; 0 stands for Python's None.              *)
(***************************************************************************)
EXTENDS Naturals, FiniteSets, Sequences

\* Number of distinct temporary file names tempfile.mkstemp can hand out.
NumFiles == 4
\* Number of _generate_and_play_thread workers that can be alive at once.
NumWorkers == 2
\* Longest queue of callbacks posted with self.after(0, ...) and not yet run.
MaxQueue == 2
\* Number of clicks on "Generate & Play Audio" in one run of the application.
MaxRequests == 2

Files == 1..NumFiles
Threads == 1..NumWorkers
None == 0

VARIABLES
  env,          \* the platform: which optional libraries were imported
                \* (module globals), whether get_busy() is true of a paused
                \* stream (pygame 1), whether a loaded file is locked (Windows)
  audio_file,   \* TTSPlayer.audio_file
  raw_mp3,      \* TTSPlayer._raw_mp3
  is_playing,   \* TTSPlayer.is_playing
  paused,       \* TTSPlayer.paused
  storage,      \* temporary files that exist on disk
  mixer_init,   \* pygame.mixer.get_init()
  music,        \* file loaded in pygame.mixer.music (None: nothing loaded)
  dev,          \* what pygame.mixer.music is doing: stopped, playing, paused
  gen,          \* per thread: position and locals of a generate() call
  wk,           \* per worker: position in _generate_and_play_thread, and
                \* the number of the request it serves
  requests,     \* number of clicks on "Generate & Play Audio" so far
  buttons,      \* state of play_btn, pause_btn and replay_btn
  pause_text,   \* text of pause_btn
  status,       \* text of status_lbl
  queue,        \* callbacks posted with self.after(0, ...), oldest first
  lastOp        \* the call or event that produced the current state

player == <<audio_file, raw_mp3, is_playing, paused>>
device == <<mixer_init, music, dev>>
ui == <<buttons, pause_text, status, queue>>
vars == <<env, audio_file, raw_mp3, is_playing, paused, storage,
          mixer_init, music, dev, gen, wk, requests, buttons, pause_text,
          status, queue, lastOp>>

\* Module globals set by the guarded imports, and the platform's behaviour.
Envs ==
  [pygame : BOOLEAN, gtts : BOOLEAN, pyttsx3 : BOOLEAN, pydub : BOOLEAN,
   busy_paused : BOOLEAN, locks : BOOLEAN]

IdleGen == [pc |-> "idle", en |-> FALSE, old |-> None, held |-> None, created |-> {}]

IdleWorker == [pc |-> "idle", req |-> 0]

\* lastOp: op is the player method or event, by the caller (a handler of the
\* application, or "caller"), thr the thread (0: main thread), res "ok" or
\* "error" (raised), load whether music.load ran, pre whether is_playing was
\* set and the mixer sounding before, rm_loaded whether a file the mixer held
\* was removed, prev the op before it (kept for a caller's resume, stop
\* and play).
NoPrev == [op |-> "none", pre |-> FALSE]

Op(name, by, res, thr, load, pre, rm) ==
  [op |-> name, by |-> by, res |-> res, thr |-> thr, load |-> load, pre |-> pre,
   rm_loaded |-> rm,
   prev |-> IF by = "caller" /\ name \in {"resume", "stop", "play"}
            THEN [op |-> lastOp.op, pre |-> lastOp.pre] ELSE NoPrev]

\* State after TTSPlayer.__init__ and the module imports.
Init ==
  /\ env \in Envs
  /\ audio_file = None
  /\ raw_mp3 = None
  /\ is_playing = FALSE
  /\ paused = FALSE
  /\ storage = {}
  /\ mixer_init = FALSE
  /\ music = None
  /\ dev = "stopped"
  /\ gen = [t \in Threads |-> IdleGen]
  /\ wk = [t \in Threads |-> IdleWorker]
  /\ requests = 0
  /\ buttons = "disabled"
  /\ pause_text = "Pause"
  /\ status = ""
  /\ queue = <<>>
  /\ lastOp = [op |-> "init", by |-> "init", res |-> "ok", thr |-> 0,
               load |-> FALSE, pre |-> FALSE, rm_loaded |-> FALSE,
               prev |-> NoPrev]


(***************************************************************************)
(* The player, the mixer and the disk as one record, so that a method is   *)
(* an operator from the state it is called in to the state it leaves and   *)
(* its outcome ("ok": returned, "error": raised).                          *)
(***************************************************************************)
Cur ==
  [audio_file |-> audio_file, raw_mp3 |-> raw_mp3, is_playing |-> is_playing,
   paused |-> paused, storage |-> storage, mixer_init |-> mixer_init,
   music |-> music, dev |-> dev]

Set(s) ==
  /\ audio_file' = s.audio_file
  /\ raw_mp3' = s.raw_mp3
  /\ is_playing' = s.is_playing
  /\ paused' = s.paused
  /\ storage' = s.storage
  /\ mixer_init' = s.mixer_init
  /\ music' = s.music
  /\ dev' = s.dev

Ok(s) == [st |-> s, res |-> "ok", load |-> FALSE]
Err(s) == [st |-> s, res |-> "error", load |-> FALSE]

\* ensure_pygame(): raises when pygame is missing or mixer.init() fails
\* (initok = FALSE); initialises the mixer when it is not initialised.
ensure_pygame(s, initok) ==
  IF ~env.pygame THEN Err(s)
  ELSE IF s.mixer_init THEN Ok(s)
  ELSE IF initok THEN Ok([s EXCEPT !.mixer_init = TRUE])
  ELSE Err(s)

\* pygame.mixer.music.get_busy(): pygame 1 also reports a paused stream busy.
get_busy(s) ==
  s.mixer_init /\ (s.dev = "playing" \/ (s.dev = "paused" /\ env.busy_paused))

\* pygame.mixer.music.stop()
music_stop(s) == [s EXCEPT !.dev = "stopped"]

\* pygame.mixer.music.load(f) succeeds for a file that is on disk.
CanLoad(s, f) == f # None /\ f \in s.storage

\* pygame.mixer.music.load(f); pygame.mixer.music.play()
music_load_play(s, f) == [s EXCEPT !.music = f, !.dev = "playing"]

\* os.remove(p) guarded by os.path.exists(p), inside try/except: where loaded
\* files are locked the removal of the file the mixer holds fails silently.
remove(s, f) ==
  IF env.locks /\ f # None /\ s.music = f THEN s
  ELSE [s EXCEPT !.storage = @ \ {f}]

\* play without the test of lines 142-143.
play_unchecked(s, initok) ==
  LET e == ensure_pygame(s, initok) IN
  IF e.res = "error" THEN e
  ELSE LET s1 == music_stop(e.st) IN
       IF ~CanLoad(s1, s1.audio_file) THEN Err(s1)
       ELSE [st |-> [music_load_play(s1, s1.audio_file)
                       EXCEPT !.is_playing = TRUE, !.paused = FALSE],
             res |-> "ok", load |-> TRUE]

\* TTSPlayer.lock (line 74) is taken only by play and replay (lines 144, 188),
\* which the application calls from the main thread alone; it never contends
\* and excludes no other method, so it is not a variable of the model.
\* TTSPlayer.play
play(s, initok) ==
  LET e == ensure_pygame(s, initok) IN
  IF e.res = "error" THEN e
  ELSE IF e.st.audio_file = None \/ e.st.audio_file \notin e.st.storage
       THEN Err(e.st)
  ELSE LET s1 == music_stop(e.st) IN
       IF ~CanLoad(s1, s1.audio_file) THEN Err(s1)
       ELSE [st |-> [music_load_play(s1, s1.audio_file)
                       EXCEPT !.is_playing = TRUE, !.paused = FALSE],
             res |-> "ok", load |-> TRUE]

\* pause with lines 163-164 moved in front of line 160: the flags are set
\* before ensure_pygame() can raise.
pause_flags_first(s, initok) ==
  LET e == ensure_pygame(s, initok) IN
  IF e.res = "error"
  THEN Ok([e.st EXCEPT !.paused = TRUE, !.is_playing = FALSE])
  ELSE IF get_busy(e.st) /\ ~e.st.paused
       THEN Ok([e.st EXCEPT !.dev = IF @ = "playing" THEN "paused" ELSE @,
                            !.paused = TRUE, !.is_playing = FALSE])
       ELSE Ok(e.st)

\* TTSPlayer.pause: every exception is caught and printed.
pause(s, initok) ==
  LET e == ensure_pygame(s, initok) IN
  IF e.res = "error" THEN Ok(e.st)
  ELSE IF get_busy(e.st) /\ ~e.st.paused
       THEN Ok([e.st EXCEPT !.dev = IF @ = "playing" THEN "paused" ELSE @,
                            !.paused = TRUE, !.is_playing = FALSE])
       ELSE Ok(e.st)

\* resume without line 174.
resume_flag_unset(s, initok) ==
  LET e == ensure_pygame(s, initok) IN
  IF e.res = "error" THEN Ok(e.st)
  ELSE IF e.st.paused
       THEN Ok([e.st EXCEPT !.dev = IF @ = "paused" THEN "playing" ELSE @,
                            !.paused = FALSE])
       ELSE Ok(e.st)

\* TTSPlayer.resume: every exception is caught and printed.
resume(s, initok) ==
  LET e == ensure_pygame(s, initok) IN
  IF e.res = "error" THEN Ok(e.st)
  ELSE IF e.st.paused
       THEN Ok([e.st EXCEPT !.dev = IF @ = "paused" THEN "playing" ELSE @,
                            !.paused = FALSE, !.is_playing = TRUE])
       ELSE Ok(e.st)

\* stop without line 183.
stop_keeps_paused(s, initok) ==
  LET e == ensure_pygame(s, initok) IN
  IF e.res = "error" THEN Ok(e.st)
  ELSE Ok([music_stop(e.st) EXCEPT !.is_playing = FALSE])

\* TTSPlayer.stop: every exception is caught and printed.
stop(s, initok) ==
  LET e == ensure_pygame(s, initok) IN
  IF e.res = "error" THEN Ok(e.st)
  ELSE Ok([music_stop(e.st) EXCEPT !.is_playing = FALSE, !.paused = FALSE])

\* replay without line 201: the exception is printed and not raised again.
replay_swallows(s, initok) ==
  LET e == ensure_pygame(s, initok) IN
  IF e.res = "error" THEN Ok(e.st)
  ELSE LET s1 == music_stop(e.st) IN
       IF ~CanLoad(s1, s1.audio_file) THEN Ok(s1)
       ELSE [st |-> [music_load_play(s1, s1.audio_file)
                       EXCEPT !.is_playing = TRUE, !.paused = FALSE],
             res |-> "ok", load |-> TRUE]

\* TTSPlayer.replay: prints and re-raises.
replay(s, initok) ==
  LET e == ensure_pygame(s, initok) IN
  IF e.res = "error" THEN e
  ELSE LET s1 == music_stop(e.st) IN
       IF ~CanLoad(s1, s1.audio_file) THEN Err(s1)
       ELSE [st |-> [music_load_play(s1, s1.audio_file)
                       EXCEPT !.is_playing = TRUE, !.paused = FALSE],
             res |-> "ok", load |-> TRUE]

\* TTSPlayer._stop_and_cleanup_playback: music.stop() and mixer.quit(), which
\* unloads the music, when the mixer is initialised.
stop_and_cleanup_playback(s) ==
  IF env.pygame /\ s.mixer_init
  THEN [s EXCEPT !.dev = "stopped", !.music = None, !.mixer_init = FALSE]
  ELSE s

\* TTSPlayer.cleanup: removes audio_file and _raw_mp3 and resets the fields.
\* It makes no call to the mixer.
cleanup(s) ==
  [remove(remove(s, s.audio_file), s.raw_mp3)
     EXCEPT !.audio_file = None, !.raw_mp3 = None,
            !.is_playing = FALSE, !.paused = FALSE]


(***************************************************************************)
(* TTSPlayer.generate, one step per stage.  g is the call's frame: pc, en  *)
(* (lang.startswith('en')), old and held (audio_file and the file loaded   *)
(* in the mixer when the call started) and created (every file this call   *)
(* got from tempfile.mkstemp).                                             *)
(***************************************************************************)

\* Names tempfile.mkstemp can return: not on disk, and not a name the player,
\* the mixer or a running call still remembers.
Avail(s) ==
  Files \ (s.storage \cup {s.audio_file, s.raw_mp3, s.music}
             \cup {gen[t].old : t \in Threads}
             \cup UNION {gen[t].created : t \in Threads})

\* tempfile.mkstemp(): the name of the new, empty file.
mkstemp(s) == CHOOSE f \in Avail(s) : \A h \in Avail(s) : f <= h

\* generate, line 82: self._stop_and_cleanup_playback()
gen_stop(s, g) ==
  [st |-> stop_and_cleanup_playback(s), g |-> [g EXCEPT !.pc = "gen_cleanup"]]

\* generate, line 83: self.cleanup()
gen_cleanup(s, g) ==
  [st |-> cleanup(s), g |-> [g EXCEPT !.pc = "gen_synth"]]

\* generate, lines 86-96: pyttsx3 into a fresh .wav; a failure is printed and
\* the call goes on to the gTTS test with the file left where it is.
gen_offline(s, g, ok) ==
  LET f == mkstemp(s)
      s1 == [s EXCEPT !.storage = @ \cup {f}]
      g1 == [g EXCEPT !.created = @ \cup {f}]
  IN  IF ok
      THEN [st |-> [s1 EXCEPT !.audio_file = f], g |-> [g1 EXCEPT !.pc = "gen_ok"]]
      ELSE [st |-> s1, g |-> [g1 EXCEPT !.pc = "gen_err"]]

\* generate, lines 102-115: gTTS into a fresh .mp3; on failure the file is
\* removed and RuntimeError raised.
gen_gtts(s, g, ok) ==
  LET f == mkstemp(s)
      s1 == [s EXCEPT !.storage = @ \cup {f}]
      g1 == [g EXCEPT !.created = @ \cup {f}]
  IN  IF ok
      THEN [st |-> [s1 EXCEPT !.raw_mp3 = f], g |-> [g1 EXCEPT !.pc = "gen_convert"]]
      ELSE [st |-> remove(s1, f), g |-> [g1 EXCEPT !.pc = "gen_err"]]

\* generate, lines 85-115: the choice of backend.
gen_synth(s, g, ok) ==
  IF g.en /\ env.pyttsx3 /\ ~env.gtts THEN gen_offline(s, g, ok)
  ELSE IF ~env.gtts THEN [st |-> s, g |-> [g EXCEPT !.pc = "gen_err"]]
  ELSE gen_gtts(s, g, ok)

\* generate, lines 118-134: pydub into a fresh .wav.  On success the mp3 is
\* removed; on failure the exception is printed and the .wav stays.
gen_pydub(s, g, ok) ==
  LET w == mkstemp(s)
      s1 == [s EXCEPT !.storage = @ \cup {w}]
      g1 == [g EXCEPT !.created = @ \cup {w}]
  IN  IF ok /\ CanLoad(s, s.raw_mp3)
      THEN [st |-> [remove(s1, s.raw_mp3) EXCEPT !.audio_file = w, !.raw_mp3 = None],
            g |-> [g1 EXCEPT !.pc = "gen_ok"]]
      ELSE [st |-> [s1 EXCEPT !.audio_file = s.raw_mp3],
            g |-> [g1 EXCEPT !.pc = "gen_ok"]]

\* generate without line 137.
gen_convert_without_fallback(s, g, ok) ==
  IF env.pydub /\ ok /\ CanLoad(s, s.raw_mp3) THEN gen_pydub(s, g, ok)
  ELSE [st |-> s, g |-> [g EXCEPT !.pc = "gen_ok"]]

\* generate, lines 117-138: conversion, or the mp3 kept as the final file.
gen_convert(s, g, ok) ==
  IF env.pydub THEN gen_pydub(s, g, ok)
  ELSE [st |-> [s EXCEPT !.audio_file = s.raw_mp3], g |-> [g EXCEPT !.pc = "gen_ok"]]

\* What the player's flags and the mixer say together.
Playing(s) ==
  s.is_playing /\ s.mixer_init /\ s.dev = "playing" /\ s.music = s.audio_file
  /\ s.audio_file # None
Paused(s) ==
  s.paused /\ s.mixer_init /\ s.dev = "paused" /\ s.music = s.audio_file
  /\ s.audio_file # None

\* is_playing is set and the mixer is producing sound.
Sounding(s) == s.is_playing /\ s.mixer_init /\ s.dev = "playing"

NoCall == \A t \in Threads : gen[t].pc = "idle"

\* A thread calls player.generate(text, lang).
CallGenerate(t, en) ==
  /\ gen[t].pc = "idle"
  /\ Cardinality(Avail(Cur)) >= 2
  /\ gen' = [gen EXCEPT ![t] = [pc |-> "gen_stop", en |-> en,
                                old |-> audio_file, held |-> music,
                                created |-> {}]]
  /\ lastOp' = Op("generate", "caller", "call", t, FALSE, FALSE, FALSE)
  /\ UNCHANGED <<env, player, storage, device, wk, requests, ui>>

\* A file the mixer holds is on disk in s and not in s2.
RemovedLoaded(s, s2) ==
  s.music # None /\ s.music \in s.storage /\ s.music \notin s2.storage

GenStep(t, r, name) ==
  /\ Set(r.st)
  /\ gen' = [gen EXCEPT ![t] = r.g]
  /\ lastOp' = Op(name, "generate", "ok", t, FALSE, FALSE,
                  RemovedLoaded(Cur, r.st))
  /\ UNCHANGED <<env, wk, requests, ui>>

GenStop(t) ==
  /\ gen[t].pc = "gen_stop"
  /\ GenStep(t, gen_stop(Cur, gen[t]), "gen_stop")

GenCleanup(t) ==
  /\ gen[t].pc = "gen_cleanup"
  /\ GenStep(t, gen_cleanup(Cur, gen[t]), "gen_cleanup")

GenSynth(t) ==
  /\ gen[t].pc = "gen_synth"
  /\ Avail(Cur) # {}
  /\ \E ok \in BOOLEAN : GenStep(t, gen_synth(Cur, gen[t], ok), "gen_synth")

GenConvert(t) ==
  /\ gen[t].pc = "gen_convert"
  /\ Avail(Cur) # {}
  /\ \E ok \in BOOLEAN : GenStep(t, gen_convert(Cur, gen[t], ok), "gen_convert")

\* generate returns (gen_ok) or raises (gen_err) to a caller that does
\* nothing else with the result.
GenReturn(t) ==
  /\ wk[t].pc = "idle"
  /\ gen[t].pc \in {"gen_ok", "gen_err"}
  /\ gen' = [gen EXCEPT ![t] = IdleGen]
  /\ lastOp' = Op("gen_return", "caller",
                  IF gen[t].pc = "gen_ok" THEN "ok" ELSE "error",
                  t, FALSE, FALSE, FALSE)
  /\ UNCHANGED <<env, player, storage, device, wk, requests, ui>>

\* A call of a method that is one operator: the caller is thread 0.
Call(name, r) ==
  /\ NoCall
  /\ Set(r.st)
  /\ lastOp' = Op(name, "caller", r.res, 0, r.load, Sounding(Cur), FALSE)
  /\ UNCHANGED <<env, gen, wk, requests, ui>>

Play == \E initok \in BOOLEAN : Call("play", play(Cur, initok))
Pause == \E initok \in BOOLEAN : Call("pause", pause(Cur, initok))
Resume == \E initok \in BOOLEAN : Call("resume", resume(Cur, initok))
Stop == \E initok \in BOOLEAN : Call("stop", stop(Cur, initok))
Replay == \E initok \in BOOLEAN : Call("replay", replay(Cur, initok))

Cleanup ==
  /\ NoCall
  /\ Set(cleanup(Cur))
  /\ lastOp' = Op("cleanup", "caller", "ok", 0, FALSE, Sounding(Cur),
                  RemovedLoaded(Cur, cleanup(Cur)))
  /\ UNCHANGED <<env, gen, wk, requests, ui>>

\* The mixer reaches the end of the track.
TrackEnds ==
  /\ dev = "playing"
  /\ dev' = "stopped"
  /\ lastOp' = Op("track_end", "mixer", "ok", 0, FALSE, Sounding(Cur), FALSE)
  /\ UNCHANGED <<env, player, storage, mixer_init, music, gen, wk, requests, ui>>

\* Something outside the program deletes the current audio file.
ExternalDelete ==
  /\ NoCall
  /\ audio_file \in storage
  /\ storage' = storage \ {audio_file}
  /\ lastOp' = Op("external_delete", "os", "ok", 0, FALSE, Sounding(Cur), FALSE)
  /\ UNCHANGED <<env, player, device, gen, wk, requests, ui>>

\* One caller uses a TTSPlayer: its calls run one after another.
Generate ==
  \/ (NoCall /\ \E en \in BOOLEAN : CallGenerate(1, en))
  \/ GenStop(1)
  \/ GenCleanup(1)
  \/ GenSynth(1)
  \/ GenConvert(1)
  \/ GenReturn(1)

Next ==
  \/ Generate
  \/ Play
  \/ Pause
  \/ Resume
  \/ Stop
  \/ Replay
  \/ Cleanup
  \/ TrackEnds
  \/ ExternalDelete

Spec == Init /\ [][Next]_vars


(***************************************************************************)
(* EnglishLearningApp: the Tk main loop runs the button handlers and the   *)
(* callbacks posted with after(0, ...), one at a time (thread 0); every    *)
(* click on "Generate & Play Audio" starts a _generate_and_play_thread.    *)
(***************************************************************************)

\* A posted callback: k its kind, x its text, req the request whose worker
\* posted _start_playback_ui (0 otherwise).
Item(k, x) == [k |-> k, x |-> x, req |-> 0]

\* self._set_status(text): posts the change of status_lbl.
StatusItem(text) == Item("status", text)

\* self.after(0, lambda: self._start_playback_ui()) by the worker of request n.
PlaybackItem(n) == [k |-> "start_playback_ui", x |-> "", req |-> n]

\* A handler or callback of the main thread that makes the player call r.
MainStep(by, name, r, q, b, ptxt) ==
  /\ Set(r.st)
  /\ queue' = q
  /\ buttons' = b
  /\ pause_text' = ptxt
  /\ lastOp' = Op(name, by, r.res, 0, r.load, Sounding(Cur),
                  RemovedLoaded(Cur, r.st))
  /\ UNCHANGED <<env, gen, wk, requests, status>>

\* A step of worker t outside generate: the mixer may be touched (r).
WorkerStep(t, name, r, pc, q, b) ==
  /\ Set(r.st)
  /\ wk' = [wk EXCEPT ![t] = IF pc = "idle" THEN IdleWorker
                             ELSE [@ EXCEPT !.pc = pc]]
  /\ queue' = q
  /\ buttons' = b
  /\ lastOp' = Op(name, "_generate_and_play_thread", r.res, t, FALSE, FALSE, FALSE)
  /\ UNCHANGED <<env, requests, pause_text, status>>

\* The application window is open: on_close has not run.
Open == lastOp.by # "on_close"

\* on_generate_audio: disables the playback buttons and starts a worker (the
\* first free one) for the next request.
OnGenerateAudio ==
  \E t \in Threads :
    /\ Open
    /\ requests < MaxRequests
    /\ wk[t].pc = "idle"
    /\ \A u \in Threads : u < t => wk[u].pc # "idle"
    /\ buttons' = "disabled"
    /\ requests' = requests + 1
    /\ wk' = [wk EXCEPT ![t] = [pc |-> "begin", req |-> requests + 1]]
    /\ lastOp' = Op("none", "on_generate_audio", "ok", 0, FALSE, FALSE, FALSE)
    /\ UNCHANGED <<env, player, storage, device, gen, pause_text, status, queue>>

\* _generate_and_play_thread, lines 388-390: 'Translating...' is posted.
WBegin(t) ==
  /\ wk[t].pc = "begin"
  /\ Len(queue) < MaxQueue
  /\ wk' = [wk EXCEPT ![t].pc = "translate"]
  /\ queue' = Append(queue, StatusItem("Translating..."))
  /\ lastOp' = Op("none", "_generate_and_play_thread", "ok", t, FALSE, FALSE, FALSE)
  /\ UNCHANGED <<env, player, storage, device, gen, requests, buttons,
                 pause_text, status>>

\* lines 392-397: GoogleTranslator(...).translate raises or returns, and then
\* 'Generating audio...' is posted.
WTranslate(t) ==
  /\ wk[t].pc = "translate"
  /\ Len(queue) < MaxQueue
  /\ UNCHANGED gen
  /\ \E ok \in BOOLEAN :
       IF ok
       THEN WorkerStep(t, "translate", Ok(Cur), "generate",
                       Append(queue, StatusItem("Generating audio...")), buttons)
       ELSE WorkerStep(t, "translate", Err(Cur), "error", queue, buttons)

\* line 399: self.player.generate(translated, lang=lang_code)
WCallGenerate(t) ==
  /\ wk[t].pc = "generate"
  /\ \E en \in BOOLEAN : CallGenerate(t, en)

\* line 399 returns or raises; line 401 posts 'Playing...'.
WGenerated(t) ==
  /\ wk[t].pc = "generate"
  /\ gen[t].pc \in {"gen_ok", "gen_err"}
  /\ gen' = [gen EXCEPT ![t] = IdleGen]
  /\ IF gen[t].pc = "gen_ok"
     THEN /\ Len(queue) < MaxQueue
          /\ WorkerStep(t, "gen_return", Ok(Cur), "ensure",
                        Append(queue, StatusItem("Playing...")), buttons)
     ELSE WorkerStep(t, "gen_return", Err(Cur), "error", queue, buttons)

\* lines 403-412: ensure_pygame() on the worker thread; then either the error
\* box and the disabling of the buttons are posted, or _start_playback_ui is.
WEnsure(t) ==
  /\ wk[t].pc = "ensure"
  /\ UNCHANGED gen
  /\ \E initok \in BOOLEAN :
       LET r == ensure_pygame(Cur, initok) IN
       IF r.res = "ok"
       THEN /\ Len(queue) < MaxQueue
            /\ WorkerStep(t, "ensure_pygame", r, "wait",
                          Append(queue, PlaybackItem(wk[t].req)), buttons)
       ELSE /\ Len(queue) + 2 <= MaxQueue
            /\ WorkerStep(t, "ensure_pygame", r, "idle",
                          queue \o <<Item("showerror", "Audio Error"),
                                     Item("disable_buttons", "")>>, buttons)

\* lines 414-424: the loop ends when get_busy() is false (or raises), and
\* 'Ready' is posted.
WWait(t) ==
  /\ wk[t].pc = "wait"
  /\ ~(env.pygame /\ get_busy(Cur))
  /\ Len(queue) < MaxQueue
  /\ UNCHANGED gen
  /\ WorkerStep(t, "wait", Ok(Cur), "idle",
                Append(queue, StatusItem("Ready")), buttons)

\* lines 425-430: the error box is posted, the buttons are disabled from the
\* worker thread, 'Error' is posted.
WError(t) ==
  /\ wk[t].pc = "error"
  /\ Len(queue) + 2 <= MaxQueue
  /\ UNCHANGED gen
  /\ WorkerStep(t, "except", Ok(Cur), "idle",
                queue \o <<Item("showerror", "TTS Error"), StatusItem("Error")>>,
                "disabled")

\* _start_playback_ui, run by the main loop.
start_playback_ui ==
  \E initok \in BOOLEAN :
    LET r == play(Cur, initok) IN
    IF r.res = "ok"
    THEN MainStep("_start_playback_ui", "play", r,
                  Append(Tail(queue), StatusItem("Playing")), "normal", "Pause")
    ELSE MainStep("_start_playback_ui", "play", r, Tail(queue), "disabled",
                  pause_text)

\* The main loop runs the oldest posted callback.
RunCallback ==
  /\ queue # <<>>
  /\ LET it == Head(queue) IN
     CASE it.k = "status" ->
            /\ status' = it.x
            /\ queue' = Tail(queue)
            /\ lastOp' = Op("none", "status", "ok", 0, FALSE, FALSE, FALSE)
            /\ UNCHANGED <<env, player, storage, device, gen, wk, requests,
                           buttons, pause_text>>
       [] it.k = "showerror" ->
            /\ queue' = Tail(queue)
            /\ lastOp' = Op("none", "showerror", "error", 0, FALSE, FALSE, FALSE)
            /\ UNCHANGED <<env, player, storage, device, gen, wk, requests,
                           buttons, pause_text, status>>
       [] it.k = "disable_buttons" ->
            /\ queue' = Tail(queue)
            /\ buttons' = "disabled"
            /\ lastOp' = Op("none", "disable_buttons", "ok", 0, FALSE, FALSE, FALSE)
            /\ UNCHANGED <<env, player, storage, device, gen, wk, requests,
                           pause_text, status>>
       [] it.k = "start_playback_ui" -> start_playback_ui

\* on_play (the Play button is enabled).
OnPlay ==
  /\ buttons = "normal"
  /\ Len(queue) < MaxQueue
  /\ \E initok \in BOOLEAN :
       LET e == ensure_pygame(Cur, initok) IN
       IF e.res = "error"
       THEN MainStep("on_play", "none", e, queue, buttons, pause_text)
       ELSE IF e.st.paused
       THEN MainStep("on_play", "resume", resume(e.st, TRUE),
                     Append(queue, StatusItem("Playing")), buttons, pause_text)
       ELSE IF ~get_busy(e.st)
       THEN LET r == play(e.st, TRUE) IN
            MainStep("on_play", "play", r,
                     IF r.res = "ok" THEN Append(queue, StatusItem("Playing"))
                     ELSE queue, buttons, pause_text)
       ELSE MainStep("on_play", "none", e, queue, buttons, pause_text)

\* on_pause (the Pause button is enabled).  get_busy() raises on a mixer that
\* is not initialised, and the handler shows the error.
OnPause ==
  /\ buttons = "normal"
  /\ Len(queue) < MaxQueue
  /\ \E initok \in BOOLEAN :
       IF paused
       THEN MainStep("on_pause", "resume", resume(Cur, initok),
                     Append(queue, StatusItem("Playing")), buttons, "Pause")
       ELSE IF env.pygame /\ ~mixer_init
       THEN MainStep("on_pause", "none", Err(Cur), queue, buttons, pause_text)
       ELSE IF env.pygame /\ get_busy(Cur)
       THEN MainStep("on_pause", "pause", pause(Cur, initok),
                     Append(queue, StatusItem("Paused")), buttons, "Resume")
       ELSE MainStep("on_pause", "none", Ok(Cur), queue, buttons, pause_text)

\* on_replay (the Replay button is enabled).
OnReplay ==
  /\ buttons = "normal"
  /\ Len(queue) < MaxQueue
  /\ \E initok \in BOOLEAN :
       LET r == replay(Cur, initok) IN
       IF r.res = "ok"
       THEN MainStep("on_replay", "replay", r,
                     Append(queue, StatusItem("Playing")), "normal", "Pause")
       ELSE MainStep("on_replay", "replay", r, queue, buttons, pause_text)

\* on_close: player.cleanup(), then pygame.mixer.quit(), then destroy().  The
\* window and its buttons are gone (no handler can run any more), the main
\* loop ends and the process exits: callbacks not yet run are dropped and the
\* daemon worker threads end where they are.
OnClose ==
  LET s1 == cleanup(Cur)
      s2 == IF env.pygame
            THEN [s1 EXCEPT !.dev = "stopped", !.music = None, !.mixer_init = FALSE]
            ELSE s1
  IN  /\ Open
      /\ Set(s2)
      /\ buttons' = "disabled"
      /\ queue' = <<>>
      /\ gen' = [t \in Threads |-> IdleGen]
      /\ wk' = [t \in Threads |-> IdleWorker]
      /\ lastOp' = Op("cleanup", "on_close", "ok", 0, FALSE, Sounding(Cur),
                      RemovedLoaded(Cur, s1))
      /\ UNCHANGED <<env, requests, pause_text, status>>

Worker(t) ==
  \/ WBegin(t)
  \/ WTranslate(t)
  \/ WCallGenerate(t)
  \/ GenStop(t)
  \/ GenCleanup(t)
  \/ GenSynth(t)
  \/ GenConvert(t)
  \/ WGenerated(t)
  \/ WEnsure(t)
  \/ WWait(t)
  \/ WError(t)

AppNext ==
  \/ OnGenerateAudio
  \/ RunCallback
  \/ OnPlay
  \/ OnPause
  \/ OnReplay
  \/ OnClose
  \/ TrackEnds
  \/ ExternalDelete
  \/ \E t \in Threads : Worker(t)

\* The platforms the application is checked on: gTTS installed.
AppInit == Init /\ env.gtts /\ ~env.pyttsx3 /\ ~env.locks

SpecApp == AppInit /\ [][AppNext]_vars

(***************************************************************************)
(* Properties of the player used by one caller (Spec).                     *)
(***************************************************************************)

\* C1: when generate has returned a path, the only temporary file of the
\* player on disk is audio_file: the previous asset, the raw mp3 and the wav
\* allocated for a conversion are gone.
C1_OnlyFinalFileRemains ==
  \A t \in Threads : gen[t].pc = "gen_ok" => storage = {audio_file}

\* C2: generate stops the mixer and makes it release its file before it
\* removes any file: between _stop_and_cleanup_playback and cleanup nothing is
\* loaded, cleanup removes no file the mixer holds, and when generate returns
\* the file that was current at the call is off the disk and audio_file is a
\* file of this call that is on disk.
C2_ReleaseBeforeDelete ==
  /\ \A t \in Threads :
       gen[t].pc = "gen_cleanup" => (music = None /\ dev = "stopped")
  /\ lastOp.op = "gen_cleanup" => ~lastOp.rm_loaded
  /\ \A t \in Threads :
       gen[t].pc = "gen_ok" =>
         /\ gen[t].old \notin storage
         /\ audio_file \in gen[t].created
         /\ audio_file \in storage
         /\ audio_file # gen[t].old

\* generate, called while the mixer held the current file, has returned.
C2_Witness ==
  /\ gen[1].pc = "gen_ok"
  /\ gen[1].old # None
  /\ gen[1].held = gen[1].old

\* C3: is_playing means the mixer has audio_file loaded and is producing
\* sound, paused means the mixer has audio_file loaded and is suspended, and
\* the two flags are never both set.
C3_FlagsMatchDevice ==
  /\ is_playing => Playing(Cur)
  /\ paused => Paused(Cur)
  /\ ~(is_playing /\ paused)

\* C6: after cleanup() the mixer is stopped and holds no file, no file was
\* removed while the mixer held it, the tracked files are off the disk and
\* the fields are reset.
C6_CleanupReleasesDevice ==
  [][lastOp'.op = "cleanup" =>
       /\ ~lastOp'.rm_loaded
       /\ dev' = "stopped"
       /\ music' = None
       /\ audio_file \notin storage' /\ raw_mp3 \notin storage'
       /\ audio_file' = None /\ raw_mp3' = None
       /\ ~is_playing' /\ ~paused']_vars

\* C7: when generate has raised, no file it created is on disk and neither
\* audio_file nor _raw_mp3 names one of them.
C7_NoOrphanOnFailure ==
  \A t \in Threads :
    gen[t].pc = "gen_err" =>
      /\ gen[t].created \cap storage = {}
      /\ audio_file \notin gen[t].created
      /\ raw_mp3 \notin gen[t].created

\* No playable asset: audio_file is None or names a file that is not on disk.
NoAsset(s) == s.audio_file = None \/ s.audio_file \notin s.storage

\* C8: play() called with no playable asset raises, loads nothing, and
\* leaves is_playing, paused and what the mixer plays as they were.
C8_PlayWithoutAssetFails ==
  [][(lastOp'.op = "play" /\ NoAsset(Cur)) =>
       /\ lastOp'.res = "error"
       /\ ~lastOp'.load
       /\ UNCHANGED <<is_playing, paused, music, dev, audio_file, storage>>]_vars

\* C8 witness: play() has raised on an initialised mixer and a player whose
\* audio_file is None.
C8_Witness ==
  /\ lastOp.op = "play"
  /\ lastOp.res = "error"
  /\ mixer_init
  /\ audio_file = None

\* C9: pause() called while is_playing and the mixer sounds suspends the
\* mixer without a load, and resume() called right after it sets is_playing,
\* clears paused and makes the mixer sound again, with the same file loaded
\* and without a load.
C9_PauseResumeRoundTrip ==
  [][/\ (lastOp'.op = "pause" /\ Sounding(Cur)) =>
          /\ paused' /\ ~is_playing' /\ dev' = "paused"
          /\ music' = music
          /\ ~lastOp'.load
     /\ (lastOp'.op = "resume" /\ lastOp.op = "pause" /\ lastOp.pre) =>
          /\ is_playing' /\ ~paused' /\ dev' = "playing" /\ mixer_init'
          /\ music' = music
          /\ ~lastOp'.load]_vars

\* C9 witness: resume() has run right after a pause() that was called while
\* playing.
C9_Witness ==
  /\ lastOp.op = "resume"
  /\ lastOp.prev.op = "pause"
  /\ lastOp.prev.pre
  /\ is_playing
  /\ dev = "playing"
  /\ music = audio_file
  /\ audio_file \in storage

\* C10: stop() never raises and leaves the mixer halted with both flags
\* clear; a stop() right after a stop() changes nothing of the player, the
\* disk or what the mixer plays.
C10_StopIdempotent ==
  [][lastOp'.op = "stop" =>
       /\ lastOp'.res = "ok"
       /\ ~is_playing' /\ ~paused' /\ dev' = "stopped"
       /\ (lastOp.op = "stop" =>
             UNCHANGED <<audio_file, raw_mp3, is_playing, paused, storage,
                         music, dev>>)]_vars

\* C10 witness: stop() has run twice in a row on a player that was playing.
C10_Witness ==
  /\ lastOp.op = "stop"
  /\ lastOp.prev.op = "stop"
  /\ lastOp.prev.pre
  /\ dev = "stopped"
  /\ ~is_playing

(***************************************************************************)
(* Properties of the application's threads (SpecApp).                      *)
(***************************************************************************)

\* Thread t is inside generate, after its first step and before its last.
InGenerate(t) == gen[t].pc \in {"gen_cleanup", "gen_synth", "gen_convert"}

\* The worker t serves a request that is not the most recent one.
Superseded(t) == wk[t].pc # "idle" /\ wk[t].req < requests

\* C4: once a later request has started, the worker of an earlier request
\* does not make a file of its own the player's audio_file, and the
\* _start_playback_ui it posted loads nothing.
C4_StaleResultDiscarded ==
  [][/\ \A t \in Threads :
          (lastOp'.thr = t /\ lastOp'.by = "generate" /\ Superseded(t)) =>
            (audio_file' = audio_file \/ audio_file' = None)
     /\ (/\ lastOp'.by = "_start_playback_ui"
         /\ queue # <<>>
         /\ Head(queue).req < requests) => ~lastOp'.load]_vars

\* C5: while a generate call of a worker is between its first and its last
\* step, the main thread runs no play, pause, resume, stop or replay.
C5_ExclusiveAccess ==
  [][(lastOp'.thr = 0 /\ lastOp'.op \in {"play", "pause", "resume", "stop", "replay"}) =>
       \A t \in Threads : ~InGenerate(t)]_vars

\* C11: when a handler of the request path has met an error (the worker's
\* except clause, the posted disabling after a failed ensure_pygame, a play()
\* that raised in _start_playback_ui or on_play, a replay() that raised in
\* on_replay), the Play, Pause and Replay buttons are disabled when the
\* handler is done.
C11_ErrorDisablesButtons ==
  [][/\ (/\ lastOp'.by \in {"_start_playback_ui", "on_play", "on_replay"}
         /\ lastOp'.res = "error") => buttons' = "disabled"
     /\ lastOp'.op = "except" => buttons' = "disabled"
     /\ lastOp'.by = "disable_buttons" => buttons' = "disabled"]_vars

\* C12: a step of a worker thread performs no operation on the mixer (init,
\* quit, stop, load, play, pause, unpause, busy query) and changes no widget:
\* it leaves the mixer's state, the playback buttons, the text of the Pause
\* button and the status label as they were and does not query get_busy().
C12_DeviceAndWidgetsOnMainThread ==
  [][lastOp'.thr # 0 =>
       /\ UNCHANGED <<mixer_init, music, dev>>
       /\ UNCHANGED <<buttons, pause_text, status>>
       /\ lastOp'.op # "wait"]_vars

(***************************************************************************)
(* Further properties of the player used by one caller (Spec).             *)
(***************************************************************************)

\* C13: pause() called while is_playing and the mixer sounds moves the player
\* to Paused, and called in any other state leaves is_playing, paused and
\* what the mixer plays as they were; resume() called while paused moves the
\* player to Playing, and called in any other state leaves them as they were.
C13_PauseResumeOnlyFromTheirState ==
  [][/\ lastOp'.op = "pause" =>
          IF Sounding(Cur)
          THEN paused' /\ ~is_playing' /\ dev' = "paused"
          ELSE UNCHANGED <<is_playing, paused, music, dev>>
     /\ lastOp'.op = "resume" =>
          IF paused
          THEN is_playing' /\ ~paused' /\ dev' = "playing"
          ELSE UNCHANGED <<is_playing, paused, music, dev>>]_vars

\* C14: with gTTS' mp3 written, the conversion step of generate ends in one
\* of two ways: audio_file is a new file on disk, the mp3 is off the disk and
\* _raw_mp3 is None (only where pydub is present); or audio_file is the mp3
\* itself, still on disk and still named by _raw_mp3.  A play() called right
\* after such a generate has returned, on a mixer that can be initialised,
\* returns with that file loaded and the player Playing.
C14_WavOrMp3ThenPlay ==
  [][/\ lastOp'.op = "gen_convert" =>
          \/ /\ env.pydub
             /\ audio_file' # raw_mp3 /\ audio_file' \in storage'
             /\ raw_mp3 \notin storage' /\ raw_mp3' = None
          \/ /\ audio_file' = raw_mp3 /\ raw_mp3' = raw_mp3
             /\ raw_mp3 # None /\ raw_mp3 \in storage'
     /\ (/\ lastOp'.op = "play"
         /\ lastOp.op = "gen_return" /\ lastOp.res = "ok"
         /\ env.gtts /\ env.pygame /\ mixer_init') =>
          /\ lastOp'.res = "ok" /\ lastOp'.load
          /\ is_playing' /\ ~paused' /\ dev' = "playing"
          /\ music' = audio_file /\ audio_file' = audio_file]_vars

\* C14 witness: play() has returned right after a generate whose conversion
\* failed and which returned the mp3.
C14_Witness ==
  /\ lastOp.op = "play" /\ lastOp.res = "ok"
  /\ lastOp.prev.op = "gen_return"
  /\ env.pydub
  /\ audio_file # None /\ audio_file = raw_mp3
  /\ is_playing /\ dev = "playing" /\ music = audio_file

\* C15: replay() called with a playable asset, on a mixer that can be
\* initialised, loads audio_file again and leaves the player with is_playing
\* set, paused clear and the mixer playing that file, whatever the flags and
\* the mixer were before; called with no playable asset (audio_file None or
\* its file not on disk) it raises and loads nothing.
C15_ReplayRestartsOrRaises ==
  [][lastOp'.op = "replay" =>
       /\ NoAsset(Cur) => (lastOp'.res = "error" /\ ~lastOp'.load)
       /\ (~NoAsset(Cur) /\ env.pygame /\ mixer_init') =>
            /\ lastOp'.res = "ok" /\ lastOp'.load
            /\ is_playing' /\ ~paused' /\ dev' = "playing"
            /\ music' = audio_file /\ audio_file' = audio_file]_vars

\* C15 witness: replay() has restarted a track that was playing when it was
\* called.
C15_Witness ==
  /\ lastOp.op = "replay" /\ lastOp.res = "ok" /\ lastOp.load
  /\ lastOp.pre
  /\ is_playing /\ ~paused /\ dev = "playing" /\ music = audio_file

\* C16: cleanup() never raises; a cleanup() right after a cleanup() changes
\* nothing of the player, the disk or the mixer; and a cleanup() called with
\* no tracked file changes nothing either.
C16_CleanupIdempotent ==
  [][(lastOp'.op = "cleanup" /\ lastOp'.by = "caller") =>
       /\ lastOp'.res = "ok"
       /\ audio_file' = None /\ raw_mp3' = None
       /\ lastOp.op = "cleanup" =>
            UNCHANGED <<audio_file, raw_mp3, is_playing, paused, storage,
                        mixer_init, music, dev>>
       /\ (audio_file = None /\ raw_mp3 = None) =>
            UNCHANGED <<audio_file, raw_mp3, is_playing, paused, storage,
                        mixer_init, music, dev>>]_vars

\* C17: pause(), resume() and stop() never raise, and when the mixer is not
\* available (pygame missing, or mixer.init() failing, so that the mixer is
\* not initialised after the call) they leave is_playing, paused and the
\* mixer as they were.
C17_DeviceErrorsSwallowed ==
  [][lastOp'.op \in {"pause", "resume", "stop"} =>
       /\ lastOp'.res = "ok"
       /\ ~mixer_init' =>
            UNCHANGED <<is_playing, paused, mixer_init, music, dev>>]_vars

\* C17 witness: pause(), resume() or stop() has been called on a player with
\* an asset while mixer.init() fails.
C17_Witness ==
  /\ lastOp.op \in {"pause", "resume", "stop"}
  /\ lastOp.res = "ok"
  /\ env.pygame /\ ~mixer_init
  /\ audio_file # None /\ audio_file \in storage

(***************************************************************************)
(* Further properties of the application's threads (SpecApp).              *)
(***************************************************************************)

\* Worker t has been started by on_generate_audio and its player.generate()
\* has neither returned nor raised yet.
InFlight(t) == wk[t].pc \in {"begin", "translate", "generate"}

\* C18: while the generation of some worker is in flight, the Play, Pause
\* and Replay buttons are disabled.
C18_ButtonsDisabledWhileGenerating ==
  (\E t \in Threads : InFlight(t)) => buttons = "disabled"

\* C19: when on_close has run, no temporary file of the player is on disk,
\* and on_close removed no file while the mixer still held it.
C19_CloseLeavesNoFile ==
  lastOp.by = "on_close" => (storage = {} /\ ~lastOp.rm_loaded)

\* The _start_playback_ui posted for request n has not been run yet.
PlaybackPending(n) ==
  \E i \in 1..Len(queue) :
    queue[i].k = "start_playback_ui" /\ queue[i].req = n

\* C20: a worker leaves its wait loop and posts 'Ready' only when the
\* _start_playback_ui it posted has been run, so that the loop has seen the
\* playback of its own request; and the main loop sets the status to 'Ready'
\* only when the mixer is not playing.
C20_ReadyAfterPlayback ==
  [][/\ \A t \in Threads :
          (lastOp'.op = "wait" /\ lastOp'.thr = t) => ~PlaybackPending(wk[t].req)
     /\ (status' = "Ready" /\ status # "Ready") => dev # "playing"]_vars

\* C21: whenever the playback buttons are enabled, the Pause button reads
\* 'Resume' if player.paused is set and 'Pause' if it is not.
C21_PauseTextMatchesPaused ==
  buttons = "normal" =>
    pause_text = (IF paused THEN "Resume" ELSE "Pause")

=============================================================================
